---- MODULE Spec2Model ----
(***************************************************************************)
(* xlsheet2csv (src/python/xlsheet2csv/cli.py): export every worksheet of  *)
(* one workbook, or of every workbook of a directory, to CSV files.        *)
(*                                                                         *)
(* A string is a sequence of one-character strings, a path is a sequence   *)
(* of path components (strings), the filesystem is the set of directories  *)
(* and the set of files that exist.                                        *)
(*                                                                         *)
(*   SpecSanitize  the three inline sanitizers, applied to bounded strings *)
(*   SpecExport    one direct call of export_workbook                      *)
(*   Spec          one run of main                                         *)
(***************************************************************************)
EXTENDS Integers, Sequences, FiniteSets, TLC

VARIABLES
    args,           \* the parsed command line (argparse namespace)
    dirs,           \* directories that exist
    files,          \* files that exist
    fs0,            \* the filesystem when the run started (history)
    clock,          \* last value datetime.now() returned, at the format's granularity
    pc,             \* position in main / export_workbook
    exit_code,      \* "none", "0", "1", or "uncaught" (unhandled exception)
    output_root,    \* main: output_root
    xlsx_files,     \* main: sorted(xlsx_files)
    idx,            \* main: idx of the enumerate loop (0 before the loop)
    output_folder,  \* main: output_folder of the current workbook
    log_file,       \* main: log_file of the current workbook
    jobs,           \* history: per started workbook, what main computed for it
    handlers,       \* logging.getLogger("xlsheet2csv").handlers
    opened,         \* number of _configure_logger calls so far
    emitted,        \* history: <<call of the handler, its kind, workbook index>> per line emitted
    ex,             \* the frame of export_workbook
    result,         \* the dict export_workbook returned
    caller,         \* who called export_workbook: "main" or "direct"
    san             \* SpecSanitize: site, input and output of one sanitization

vars == <<args, dirs, files, fs0, clock, pc, exit_code, output_root, xlsx_files,
          idx, output_folder, log_file, jobs, handlers, opened, emitted, ex,
          result, caller, san>>

\* Python's None where a path (a sequence of components) is expected
None == <<<<"None">>>>

\* no string yet
NoStr == <<"None">>

\* ------------------------------------------------------------------ bounds

\* longest string SpecSanitize sanitizes
MaxLen == 3
\* most sheets of a workbook read in SpecExport
MaxSheets == 3
\* largest value of the formatted clock
MaxClock == 2

\* --------------------------------------------------------------- strings

\* ord(c) of the characters the model uses
Ord(c) ==
    CASE c = " " -> 32   [] c = "\"" -> 34  [] c = "$" -> 36   [] c = "*" -> 42
      [] c = "-" -> 45   [] c = "." -> 46   [] c = "/" -> 47   [] c = "0" -> 48
      [] c = "1" -> 49   [] c = "2" -> 50   [] c = "3" -> 51   [] c = "4" -> 52
      [] c = ":" -> 58   [] c = "<" -> 60   [] c = ">" -> 62   [] c = "?" -> 63
      [] c = "A" -> 65   [] c = "B" -> 66   [] c = "C" -> 67   [] c = "L" -> 76
      [] c = "S" -> 83   [] c = "X" -> 88   [] c = "\\" -> 92  [] c = "_" -> 95
      [] c = "a" -> 97   [] c = "b" -> 98   [] c = "c" -> 99   [] c = "d" -> 100
      [] c = "e" -> 101  [] c = "g" -> 103  [] c = "l" -> 108  [] c = "n" -> 110
      [] c = "o" -> 111  [] c = "p" -> 112  [] c = "r" -> 114  [] c = "s" -> 115
      [] c = "t" -> 116  [] c = "u" -> 117  [] c = "v" -> 118  [] c = "x" -> 120
      [] c = "|" -> 124  [] c = "~" -> 126

\* str.lower(), one character
LowerChar(c) ==
    CASE c = "A" -> "a" [] c = "B" -> "b" [] c = "C" -> "c" [] c = "L" -> "l"
      [] c = "S" -> "s" [] c = "X" -> "x" [] OTHER -> c

\* str.lower()
Lower(s) == [i \in 1..Len(s) |-> LowerChar(s[i])]

\* str.endswith(suffix)
EndsWith(s, suffix) ==
    /\ Len(s) >= Len(suffix)
    /\ SubSeq(s, Len(s) - Len(suffix) + 1, Len(s)) = suffix

\* str.startswith(prefix)
StartsWith(s, prefix) ==
    /\ Len(s) >= Len(prefix)
    /\ SubSeq(s, 1, Len(prefix)) = prefix

\* s < t for two str (code point by code point, a proper prefix is smaller)
StrLess(s, t) ==
    \E n \in 0..Len(s) :
        /\ n <= Len(t)
        /\ \A i \in 1..n : s[i] = t[i]
        /\ \/ n = Len(s) /\ n < Len(t)
           \/ n < Len(s) /\ n < Len(t) /\ Ord(s[n + 1]) < Ord(t[n + 1])

\* ------------------------------------------------------------- sanitizers

\* the literal '\\/:*?"<>|' of line 20
ForbiddenFolder == {"\\", "/", ":", "*", "?", "\"", "<", ">", "|"}

\* the literal '\\/:*?"<>|' of line 66
ForbiddenSheet == {"\\", "/", ":", "*", "?", "\"", "<", ">", "|"}

\* the literal '\\/:*?"<>|' of line 168
ForbiddenLog == {"\\", "/", ":", "*", "?", "\"", "<", ">", "|"}

\* a sanitizer that forgets the double quote and the pipe
SafeBaseNoQuote(base_name) ==
    [i \in 1..Len(base_name) |->
        IF base_name[i] \notin (ForbiddenFolder \ {"\"", "|"}) THEN base_name[i] ELSE "_"]

\* _create_output_folder: safe_base
SafeBase(base_name) ==
    [i \in 1..Len(base_name) |->
        IF base_name[i] \notin ForbiddenFolder THEN base_name[i] ELSE "_"]

\* export_workbook: safe_name
SafeSheetName(name) ==
    [i \in 1..Len(name) |->
        IF name[i] \notin ForbiddenSheet THEN name[i] ELSE "_"]

\* main: safe_name of the log file
SafeLogName(base_name) ==
    [i \in 1..Len(base_name) |->
        IF base_name[i] \notin ForbiddenLog THEN base_name[i] ELSE "_"]

\* the sanitizer of one of the three places
SanitizeAt(site, name) ==
    CASE site = "folder" -> SafeBase(name)
      [] site = "sheet" -> SafeSheetName(name)
      [] site = "log" -> SafeLogName(name)

\* ----------------------------------------------------------------- paths

\* os.path.join(folder, name)
Join(folder, name) == Append(folder, name)

\* os.path.dirname(path)
DirName(path) == SubSeq(path, 1, Len(path) - 1)

\* os.path.basename(path)
BaseName(path) == path[Len(path)]

\* the path as the str Python holds: "/" before every component
RECURSIVE PathStr(_)
PathStr(path) ==
    IF path = <<>> THEN <<>>
    ELSE PathStr(DirName(path)) \o <<"/">> \o BaseName(path)

\* os.path.splitext(name)[0]: cut at the last dot, unless only dots precede it
SplitExtRoot(name) ==
    LET dots == {i \in 1..Len(name) : name[i] = "."}
        last == CHOOSE i \in dots : \A j \in dots : j <= i
    IN  IF dots # {} /\ (\E j \in 1..(last - 1) : name[j] # ".")
        THEN SubSeq(name, 1, last - 1)
        ELSE name

\* the path and every ancestor of it
Prefixes(path) == {SubSeq(path, 1, n) : n \in 1..Len(path)}

\* path lies below folder
Under(path, folder) ==
    Len(path) > Len(folder) /\ SubSeq(path, 1, Len(folder)) = folder

\* os.path.exists(path)
Exists(path, ds, fs) == path \in ds \/ path \in fs

\* _ensure_directory(path): the directories afterwards (makedirs makes the ancestors too)
EnsureDirectory(path, ds, fs) ==
    IF path # <<>> /\ ~Exists(path, ds, fs) THEN ds \cup Prefixes(path) ELSE ds

\* datetime.now().strftime(date_format), a function of the clock at the format's granularity
StrFTime(t) ==
    CASE t = 0 -> <<"0">> [] t = 1 -> <<"1">> [] t = 2 -> <<"2">>
      [] t = 3 -> <<"3">> [] OTHER -> <<"4">>

\* the values datetime.now() may return next
Now == clock..MaxClock

\* sorted(paths): ascending by the path's str
RECURSIVE Sorted(_)
Sorted(paths) ==
    IF paths = {} THEN <<>>
    ELSE LET least == CHOOSE p \in paths :
                        \A q \in paths \ {p} : StrLess(PathStr(p), PathStr(q))
         IN  <<least>> \o Sorted(paths \ {least})

\* the elements of a sequence
Range(seq) == {seq[i] : i \in DOMAIN seq}

\* ---------------------------------------------------------------- logger

\* a logger that keeps the handlers it had
KeepHandlers(hs) == hs

\* logger.handlers.clear()
ClearHandlers(hs) == <<>>

\* _configure_logger(log_file), the (n+1)-th call of it: the handlers of the shared
\* logger afterwards, each marked with the call that created it
ConfigureLogger(hs, lf, n) ==
    ClearHandlers(hs)
        \o <<[kind |-> "console", path |-> None, call |-> n + 1]>>
        \o (IF lf # None THEN <<[kind |-> "file", path |-> lf, call |-> n + 1]>> ELSE <<>>)

\* _configure_logger(log_file): the directories afterwards
ConfigureLoggerDirs(lf, ds, fs) ==
    IF lf # None THEN EnsureDirectory(DirName(lf), ds, fs) ELSE ds

\* _configure_logger(log_file): the files afterwards (FileHandler opens its file at once)
ConfigureLoggerFiles(lf, fs) ==
    IF lf # None THEN fs \cup {lf} ELSE fs

\* logger.info(...) for workbook k: every attached handler emits the line
Emit(hs, k) == emitted \cup {<<hs[i].call, hs[i].kind, k>> : i \in DOMAIN hs}

\* ------------------------------------------------------------ the world

Xlsx == <<".", "x", "l", "s", "x">>
Src == <<<<"s", "r", "c">>>>
CsvExport == <<"c", "s", "v", "-", "e", "x", "p", "o", "r", "t">>
ExportLog == <<"e", "x", "p", "o", "r", "t", ".", "l", "o", "g">>
DotCsv == <<".", "c", "s", "v">>
DotLog == <<".", "l", "o", "g">>
Out == <<<<"o", "u", "t">>>>
OutDeep == <<<<"o", "u", "t">>, <<"d", "e", "e", "p">>>>
Logs == <<<<"l", "o", "g", "s">>>>
Nope == <<<<"n", "o", "p", "e">>>>

\* entries a source directory may hold
FileA == Join(Src, <<"a">> \o Xlsx)
FileB == Join(Src, <<"B", ".", "X", "L", "S", "X">>)
FileLock == Join(Src, <<"~", "$", "a">> \o Xlsx)
FileCsv == Join(Src, <<"n", ".", "c", "s", "v">>)
DirXlsx == Join(Src, <<"d">> \o Xlsx)
Sub == Join(Src, <<"s", "u", "b">>)
FileSubA == Join(Sub, <<"a">> \o Xlsx)

CandidateFiles == {FileA, FileB, FileLock, FileCsv, FileSubA}

\* sheet names a workbook may hold
SheetA == <<"A">>
SheetB == <<"B">>
SheetC == <<"C">>
SheetLt == <<"a", "<">>
SheetGt == <<"a", ">">>
SheetNames == {SheetA, SheetB, SheetC, SheetLt, SheetGt}

\* sequences over S without repetition, of 1..n elements (the keys of a dict, in order)
OrderedKeys(S, n) ==
    {q \in UNION {[1..k -> S] : k \in 1..n} :
        \A i, j \in DOMAIN q : i # j => q[i] # q[j]}

\* what pd.read_excel(path, sheet_name=None) may return for a workbook file
WorkbookContents ==
    IF caller = "direct" THEN OrderedKeys(SheetNames, MaxSheets)
    ELSE {<<SheetA>>, <<SheetA, SheetB>>}

\* --------------------------------------------------------- export_workbook

NoFrame ==
    [workbook_path |-> None, output_folder |-> None, include_sheets |-> {},
     exclude_sheets |-> {}, sheets |-> <<>>, pos |-> 0, sheet_names |-> <<>>,
     exported |-> <<>>, csv_path |-> None]

\* the call export_workbook(workbook_path, output_folder, logger, include, exclude)
Call(workbook_path, folder) ==
    [NoFrame EXCEPT !.workbook_path = workbook_path, !.output_folder = folder]

\* a filter in which a listed include wins over exclude
PassesIncludeFirst(name, include_sheets, exclude_sheets) ==
    \/ name \in include_sheets
    \/ include_sheets = {} /\ name \notin exclude_sheets

\* lines 58-63: the sheet is not skipped
PassesFilters(name, include_sheets, exclude_sheets) ==
    /\ ~(include_sheets # {} /\ name \notin include_sheets)
    /\ ~(exclude_sheets # {} /\ name \in exclude_sheets)

\* a csv_path that uses the sheet's raw name
CsvPathRaw(folder, name) == Join(folder, name \o DotCsv)

\* lines 66-67: csv_path
CsvPath(folder, name) == Join(folder, SafeSheetName(name) \o DotCsv)

\* an exception that is swallowed: the run goes on with the next workbook
RaiseSwallowed ==
    /\ pc' = "loop"
    /\ UNCHANGED exit_code

\* an exception nothing catches (main has no try) ends the process: no exit code 0
Raise ==
    /\ pc' = "crashed"
    /\ exit_code' = "uncaught"

\* lines 46-55: log the start, read every sheet, build the filter sets
ExportRead ==
    /\ pc = "export"
    /\ emitted' = Emit(handlers, idx)
    /\ \/ /\ ex.workbook_path \in files
          /\ \E sheets \in WorkbookContents :
                ex' = [ex EXCEPT !.sheets = sheets,
                                 !.include_sheets = args.include,
                                 !.exclude_sheets = args.exclude]
          /\ pc' = "sheets"
          /\ UNCHANGED <<exit_code, jobs>>
       \/ /\ Raise
          /\ jobs' = IF caller = "main" THEN [jobs EXCEPT ![idx].status = "failed"] ELSE jobs
          /\ UNCHANGED ex
    /\ UNCHANGED <<args, dirs, files, fs0, clock, output_root, xlsx_files, idx,
                   output_folder, log_file, handlers, opened, result, caller, san>>

\* lines 57-67: the next sheet is skipped, or named and given its csv_path
ExportSheetBegin ==
    /\ pc = "sheets"
    /\ ex.pos < Len(ex.sheets)
    /\ LET name == ex.sheets[ex.pos + 1] IN
        \/ /\ ~PassesFilters(name, ex.include_sheets, ex.exclude_sheets)
           /\ ex' = [ex EXCEPT !.pos = ex.pos + 1]
           /\ emitted' = Emit(handlers, idx)
           /\ UNCHANGED pc
        \/ /\ PassesFilters(name, ex.include_sheets, ex.exclude_sheets)
           /\ ex' = [ex EXCEPT !.sheet_names = Append(ex.sheet_names, name),
                               !.csv_path = CsvPath(ex.output_folder, name)]
           /\ pc' = "write"
           /\ UNCHANGED emitted
    /\ UNCHANGED <<args, dirs, files, fs0, clock, exit_code, output_root, xlsx_files,
                   idx, output_folder, log_file, jobs, handlers, opened, result,
                   caller, san>>

\* lines 69-71: log, write the CSV (replacing a file of that path), record the path
ExportSheetWrite ==
    /\ pc = "write"
    /\ emitted' = Emit(handlers, idx)
    /\ \/ /\ ex.output_folder \in dirs
          /\ files' = files \cup {ex.csv_path}
          /\ ex' = [ex EXCEPT !.exported = Append(ex.exported, ex.csv_path),
                              !.pos = ex.pos + 1]
          /\ pc' = "sheets"
          /\ UNCHANGED <<exit_code, jobs>>
       \/ /\ Raise
          /\ \/ UNCHANGED files
             \/ /\ ex.output_folder \in dirs
                /\ ex.csv_path \notin files
                /\ files' = files \cup {ex.csv_path}
          /\ jobs' = IF caller = "main" THEN [jobs EXCEPT ![idx].status = "failed"] ELSE jobs
          /\ UNCHANGED ex
    /\ UNCHANGED <<args, dirs, fs0, clock, output_root, xlsx_files, idx,
                   output_folder, log_file, handlers, opened, result, caller, san>>

\* lines 73-81: log the completion and return the result
ExportReturn ==
    /\ pc = "sheets"
    /\ ex.pos = Len(ex.sheets)
    /\ emitted' = Emit(handlers, idx)
    /\ result' = [workbook_path |-> ex.workbook_path,
                  output_folder |-> ex.output_folder,
                  sheets_exported |-> ex.sheet_names,
                  csv_files |-> ex.exported]
    /\ pc' = IF caller = "main" THEN "loop" ELSE "returned"
    /\ jobs' = IF caller = "main"
               THEN [jobs EXCEPT ![idx].status = "returned", ![idx].csv_files = ex.exported]
               ELSE jobs
    /\ UNCHANGED <<args, dirs, files, fs0, clock, exit_code, output_root, xlsx_files,
                   idx, output_folder, log_file, handlers, opened, ex, caller, san>>

\* ----------------------------------------------------- specification: export

\* include / exclude lists a caller passes
FilterNames == {SheetA, SheetB, SheetLt}

NoSan == [site |-> "none", name |-> <<>>, out |-> NoStr, done |-> TRUE]

NoResult == [workbook_path |-> None, output_folder |-> None,
             sheets_exported |-> <<>>, csv_files |-> <<>>]

NoArgs == [source_path |-> None, output_root |-> None, recurse |-> FALSE,
           include |-> {}, exclude |-> {}, log_root |-> None]

\* a direct call of export_workbook on a workbook file, with a fresh output folder and a
\* logger that _configure_logger made
InitExport ==
    /\ caller = "direct"
    /\ \E inc \in SUBSET FilterNames, exc \in SUBSET FilterNames :
          args = [NoArgs EXCEPT !.include = inc, !.exclude = exc]
    /\ \E lf \in {None, Join(Out, ExportLog)} :
          /\ handlers = ConfigureLogger(<<>>, lf, 0)
          /\ opened = 1
          /\ dirs = {Src, Out}
          /\ files = ConfigureLoggerFiles(lf, {FileA})
    /\ fs0 = [dirs |-> dirs, files |-> files]
    /\ clock = 0
    /\ pc = "export"
    /\ exit_code = "none"
    /\ output_root = None
    /\ xlsx_files = <<>>
    /\ idx = 1
    /\ output_folder = Out
    /\ log_file = None
    /\ jobs = <<>>
    /\ emitted = {}
    /\ ex = Call(FileA, Out)
    /\ result = NoResult
    /\ san = NoSan

NextExport == ExportRead \/ ExportSheetBegin \/ ExportSheetWrite \/ ExportReturn

SpecExport == InitExport /\ [][NextExport]_vars

\* --------------------------------------------------- specification: sanitize

SanAlphabet == {"\\", "/", ":", "*", "?", "\"", "<", ">", "|", "_", "a", " "}

SanStrings == UNION {[1..k -> SanAlphabet] : k \in 0..MaxLen}

InitSanitize ==
    /\ \E site \in {"folder", "sheet", "log"}, name \in SanStrings :
          san = [site |-> site, name |-> name, out |-> NoStr, done |-> FALSE]
    /\ args = NoArgs
    /\ dirs = {}
    /\ files = {}
    /\ fs0 = [dirs |-> {}, files |-> {}]
    /\ clock = 0
    /\ pc = "sanitize"
    /\ exit_code = "none"
    /\ output_root = None
    /\ xlsx_files = <<>>
    /\ idx = 0
    /\ output_folder = None
    /\ log_file = None
    /\ jobs = <<>>
    /\ handlers = <<>>
    /\ opened = 0
    /\ emitted = {}
    /\ ex = NoFrame
    /\ result = NoResult
    /\ caller = "none"

\* one evaluation of the comprehension of line 20, 66 or 168
SanitizeCall ==
    /\ pc = "sanitize"
    /\ ~san.done
    /\ san' = [san EXCEPT !.out = SanitizeAt(san.site, san.name), !.done = TRUE]
    /\ UNCHANGED <<args, dirs, files, fs0, clock, pc, exit_code, output_root,
                   xlsx_files, idx, output_folder, log_file, jobs, handlers, opened,
                   emitted, ex, result, caller>>

NextSanitize == SanitizeCall

SpecSanitize == InitSanitize /\ [][NextSanitize]_vars

\* -------------------------------------------------------------------- main

\* lines 147 and 153: the name filter of the directory scan
IsXlsxName(name) ==
    EndsWith(Lower(name), Xlsx) /\ ~StartsWith(name, <<"~", "$">>)

\* os.listdir(folder): every entry of the folder, files and directories alike
ListDir(folder, ds, fs) ==
    {p \in ds \cup fs : Len(p) = Len(folder) + 1 /\ DirName(p) = folder}

\* os.walk(top): the files of top and of every directory below it
WalkFiles(top, fs) == {p \in fs : Under(p, top)}

\* lines 142-156: xlsx_files, as a set (line 162 sorts it)
Discover(source_path, recurse, ds, fs) ==
    IF source_path \in ds
    THEN IF recurse
         THEN {p \in WalkFiles(source_path, fs) : IsXlsxName(BaseName(p))}
         ELSE {p \in ListDir(source_path, ds, fs) : IsXlsxName(BaseName(p))}
    ELSE {source_path}

\* lines 132-138: output_root
ResolveOutputRoot(a, ds) ==
    IF a.output_root # None THEN a.output_root
    ELSE IF a.source_path \in ds THEN Join(a.source_path, CsvExport)
    ELSE Join(DirName(a.source_path), CsvExport)

\* a folder name without the timestamp
OutputFolderNoStamp(workbook_path, destination_root, t) ==
    Join(destination_root, SafeBase(SplitExtRoot(BaseName(workbook_path))) \o <<"_">>)

\* lines 19-22: output_folder, for the time t that datetime.now() returns
OutputFolder(workbook_path, destination_root, t) ==
    Join(destination_root,
         SafeBase(SplitExtRoot(BaseName(workbook_path))) \o <<"_">> \o StrFTime(t))

\* lines 165-171: log_file, for the time t that datetime.now() returns
LogFile(a, workbook_path, folder, t) ==
    IF a.log_root # None
    THEN Join(a.log_root,
              SafeLogName(SplitExtRoot(BaseName(workbook_path)))
                  \o <<"_">> \o StrFTime(t) \o DotLog)
    ELSE Join(folder, ExportLog)

\* a check of the source that lets a missing path through
SourceMissingNever(a, ds, fs) == FALSE

\* line 128: not os.path.exists(source_path)
SourceMissing(a, ds, fs) == ~Exists(a.source_path, ds, fs)

\* an empty scan that is not noticed
NothingFoundNever(found) == FALSE

\* line 158: not xlsx_files
NothingFound(found) == found = {}

\* lines 125-130: a missing source ends the run with 1
MainCheckSource ==
    /\ pc = "main"
    /\ \/ /\ SourceMissing(args, dirs, files)
          /\ pc' = "done"
          /\ exit_code' = "1"
       \/ /\ ~SourceMissing(args, dirs, files)
          /\ pc' = "root"
          /\ UNCHANGED exit_code
    /\ UNCHANGED <<args, dirs, files, fs0, clock, output_root, xlsx_files, idx,
                   output_folder, log_file, jobs, handlers, opened, emitted, ex,
                   result, caller, san>>

\* lines 132-140: choose the output root and make it
MainResolveRoot ==
    /\ pc = "root"
    /\ output_root' = ResolveOutputRoot(args, dirs)
    /\ dirs' = EnsureDirectory(output_root', dirs, files)
    /\ pc' = "discover"
    /\ UNCHANGED <<args, files, fs0, clock, exit_code, xlsx_files, idx,
                   output_folder, log_file, jobs, handlers, opened, emitted, ex,
                   result, caller, san>>

\* lines 142-160: scan, end the run with 1 when nothing was found
MainDiscover ==
    /\ pc = "discover"
    /\ LET found == Discover(args.source_path, args.recurse, dirs, files) IN
        \/ /\ NothingFound(found)
           /\ pc' = "done"
           /\ exit_code' = "1"
           /\ UNCHANGED xlsx_files
        \/ /\ ~NothingFound(found)
           /\ xlsx_files' = Sorted(found)
           /\ pc' = "loop"
           /\ UNCHANGED exit_code
    /\ UNCHANGED <<args, dirs, files, fs0, clock, output_root, idx, output_folder,
                   log_file, jobs, handlers, opened, emitted, ex, result, caller, san>>

\* lines 162-163: the next workbook of the sorted list gets its output folder
MainCreateFolder ==
    /\ pc = "loop"
    /\ idx < Len(xlsx_files)
    /\ \E t \in Now :
        LET workbook_path == xlsx_files[idx + 1]
            folder == OutputFolder(workbook_path, output_root, t)
        IN  /\ clock' = t
            /\ idx' = idx + 1
            /\ output_folder' = folder
            /\ dirs' = EnsureDirectory(folder, dirs, files)
            /\ jobs' = Append(jobs, [workbook_path |-> workbook_path,
                                     output_folder |-> folder, log_file |-> None,
                                     stamp |-> t, csv_files |-> <<>>,
                                     status |-> "folder"])
    /\ pc' = "log"
    /\ UNCHANGED <<args, files, fs0, exit_code, output_root, xlsx_files, log_file,
                   handlers, opened, emitted, ex, result, caller, san>>

\* lines 165-183: the log file, the logger, the progress line, the call of the exporter
\* (args.backend is always "pandas": argparse accepts no other choice)
MainOpenLog ==
    /\ pc = "log"
    /\ \E t \in (IF args.log_root # None THEN Now ELSE {clock}) :
        LET workbook_path == xlsx_files[idx]
            lf == LogFile(args, workbook_path, output_folder, t)
            ds == IF args.log_root # None
                  THEN EnsureDirectory(args.log_root, dirs, files) ELSE dirs
        IN  /\ clock' = t
            /\ log_file' = lf
            /\ dirs' = ConfigureLoggerDirs(lf, ds, files)
            /\ files' = ConfigureLoggerFiles(lf, files)
            /\ handlers' = ConfigureLogger(handlers, lf, opened)
            /\ opened' = opened + 1
            /\ emitted' = Emit(handlers', idx)
            /\ jobs' = [jobs EXCEPT ![idx].log_file = lf, ![idx].status = "exporting"]
            /\ ex' = Call(workbook_path, output_folder)
    /\ pc' = "export"
    /\ UNCHANGED <<args, fs0, exit_code, output_root, xlsx_files, idx, output_folder,
                   result, caller, san>>

\* line 188: every workbook was exported
MainReturn ==
    /\ pc = "loop"
    /\ idx = Len(xlsx_files)
    /\ pc' = "done"
    /\ exit_code' = "0"
    /\ UNCHANGED <<args, dirs, files, fs0, clock, output_root, xlsx_files, idx,
                   output_folder, log_file, jobs, handlers, opened, emitted, ex,
                   result, caller, san>>

\* the command lines and source trees of the runs
SourcePaths == {Src, FileA, FileCsv, Nope}
OutputRoots == {None, Out, OutDeep}
LogRoots == {None, Logs}
Filters == {<<{}, {}>>, <<{SheetA, SheetB}, {SheetB}>>}

Init ==
    /\ caller = "main"
    /\ \E source_path \in SourcePaths, root \in OutputRoots, log_root \in LogRoots,
          recurse \in BOOLEAN, f \in Filters :
          args = [source_path |-> source_path, output_root |-> root,
                  recurse |-> recurse, include |-> f[1], exclude |-> f[2],
                  log_root |-> log_root]
    /\ \E fs \in SUBSET CandidateFiles, ds \in SUBSET {DirXlsx} :
          /\ files = fs
          /\ dirs = {Src} \cup ds \cup (IF FileSubA \in fs THEN {Sub} ELSE {})
    /\ fs0 = [dirs |-> dirs, files |-> files]
    /\ clock = 0
    /\ pc = "main"
    /\ exit_code = "none"
    /\ output_root = None
    /\ xlsx_files = <<>>
    /\ idx = 0
    /\ output_folder = None
    /\ log_file = None
    /\ jobs = <<>>
    /\ handlers = <<>>
    /\ opened = 0
    /\ emitted = {}
    /\ ex = NoFrame
    /\ result = NoResult
    /\ san = NoSan

Next ==
    \/ MainCheckSource
    \/ MainResolveRoot
    \/ MainDiscover
    \/ MainCreateFolder
    \/ MainOpenLog
    \/ MainReturn
    \/ ExportRead
    \/ ExportSheetBegin
    \/ ExportSheetWrite
    \/ ExportReturn

Spec == Init /\ [][Next]_vars

\* ------------------------------------------------------------------ claims

\* the characters the specification lists: \ / : * ? " < > |
ListedChars == {"\\", "/", ":", "*", "?", "\"", "<", ">", "|"}

\* out is name with every listed character replaced by "_", and nothing else changed
IsSanitized(name, out) ==
    /\ Len(out) = Len(name)
    /\ \A i \in 1..Len(name) :
          /\ name[i] \in ListedChars => out[i] = "_"
          /\ name[i] \notin ListedChars => out[i] = name[i]

\* the filter rule as the specification states it
ShouldExport(name, include, exclude) ==
    (include = {} \/ name \in include) /\ name \notin exclude

\* the subsequence of seq that the filter rule keeps
RECURSIVE Kept(_, _, _)
Kept(seq, include, exclude) ==
    IF seq = <<>> THEN <<>>
    ELSE LET rest == Kept(Tail(seq), include, exclude)
         IN  IF ShouldExport(Head(seq), include, exclude)
             THEN <<Head(seq)>> \o rest ELSE rest

\* the CSV files in the output folder of the call
CsvFilesIn(folder) ==
    {f \in files : DirName(f) = folder /\ EndsWith(BaseName(f), DotCsv)}

\* C4: each of the three sanitizers returns a string of the input's length that holds "_"
\* where the input holds one of \ / : * ? " < > | and the input's character elsewhere;
\* so the output holds none of those characters and a clean input comes back unchanged
C4_SanitizeReplacesListedChars ==
    (pc = "sanitize" /\ san.done) =>
        /\ IsSanitized(san.name, san.out)
        /\ \A i \in 1..Len(san.out) : san.out[i] \notin ListedChars
        /\ (\A i \in 1..Len(san.name) : san.name[i] \notin ListedChars) => san.out = san.name

\* C4 witness: a name mixing a quote, a plain character and a pipe was sanitized
C4_Witness ==
    /\ pc = "sanitize" /\ san.done
    /\ san.site = "folder"
    /\ san.name = <<"\"", "a", "|">>
    /\ san.out = <<"_", "a", "_">>

\* C1: a sheet is exported (listed in the result, its CSV written) iff the include set is
\* empty or holds its name, and the exclude set does not hold its name
C1_ExportedIffFilter ==
    (pc = "returned") =>
        \A i \in DOMAIN ex.sheets :
            LET name == ex.sheets[i] IN
            /\ name \in Range(result.sheets_exported)
                  <=> ShouldExport(name, args.include, args.exclude)
            /\ name \in Range(result.sheets_exported) =>
                  \E j \in DOMAIN result.csv_files :
                      /\ result.sheets_exported[j] = name
                      /\ result.csv_files[j] \in files

\* C1 witness: sheets A, B, C with include {A, B} and exclude {B}: exactly A is exported
C1_Witness ==
    /\ pc = "returned"
    /\ ex.sheets = <<SheetA, SheetB, SheetC>>
    /\ args.include = {SheetA, SheetB}
    /\ args.exclude = {SheetB}
    /\ result.sheets_exported = <<SheetA>>

\* C2: without filters and without a failed write, the output folder holds as many CSV
\* files after the export as the workbook has sheets
C2_OneCsvPerSheet ==
    (pc = "returned" /\ args.include = {} /\ args.exclude = {}) =>
        Cardinality(CsvFilesIn(ex.output_folder)) = Len(ex.sheets)

\* C3: at the head of every iteration and in the result, the two lists have one length,
\* the i-th path is output_folder/<sanitized i-th name>.csv, and the names are the
\* sheets seen so far that pass the filters, in the workbook's order, none twice
C3_ListsCorrespond ==
    LET names == IF pc = "returned" THEN result.sheets_exported ELSE ex.sheet_names
        paths == IF pc = "returned" THEN result.csv_files ELSE ex.exported
    IN  (pc \in {"sheets", "returned"}) =>
            /\ Len(names) = Len(paths)
            /\ \A i \in DOMAIN names :
                  /\ Len(paths[i]) = Len(ex.output_folder) + 1
                  /\ DirName(paths[i]) = ex.output_folder
                  /\ \E safe \in {SubSeq(BaseName(paths[i]), 1, Len(names[i]))} :
                        /\ IsSanitized(names[i], safe)
                        /\ BaseName(paths[i]) = safe \o DotCsv
            /\ names = Kept(SubSeq(ex.sheets, 1, ex.pos), args.include, args.exclude)
            /\ \A i, j \in DOMAIN names : i # j => names[i] # names[j]

\* C3 witness: a result of two sheets out of three, one of them with a forbidden character
C3_Witness ==
    /\ pc = "returned"
    /\ Len(ex.sheets) = Len(result.sheets_exported) + 1
    /\ result.sheets_exported = <<SheetLt, SheetA>>
    /\ Len(result.csv_files) = Len(result.sheets_exported)

\* what exists now and did not when the run started
CreatedDirs == dirs \ fs0.dirs
CreatedFiles == files \ fs0.files

\* the source path of the run was missing when it started
SourceWasMissing == ~Exists(args.source_path, fs0.dirs, fs0.files)

\* the source path of the run was a directory when it started
SourceWasDir == args.source_path \in fs0.dirs

\* C5: a run on a missing source path ends with exit code 1 and creates nothing,
\* whatever -o, --log-root, --recurse and the filters are
C5_MissingSourceNoEffects ==
    SourceWasMissing =>
        /\ dirs = fs0.dirs
        /\ files = fs0.files
        /\ pc \in {"main", "done"}
        /\ pc = "done" => exit_code = "1"

\* C5 witness: such a run, with -o, --log-root, --recurse and filters given, has ended
C5_Witness ==
    /\ pc = "done"
    /\ exit_code = "1"
    /\ SourceWasMissing
    /\ args.output_root = OutDeep
    /\ args.log_root = Logs
    /\ args.recurse
    /\ args.include # {}

\* the run ended after a scan of a directory that found nothing
EndedEmptyScan == pc = "done" /\ SourceWasDir /\ xlsx_files = <<>>

\* C6 as stated: after a scan of a directory that finds no workbook the exit code is 1 and
\* the only directory created is the output root itself; no file is created
C6_OnlyRootCreated ==
    EndedEmptyScan =>
        /\ exit_code = "1"
        /\ CreatedDirs \subseteq {output_root}
        /\ CreatedFiles = {}

\* C6 as amended: the exit code is 1, the only directories created are the output root and
\* its missing ancestors, nothing is created below the output root, no log root and no
\* file is created
C6_OnlyRootAndAncestorsCreated ==
    EndedEmptyScan =>
        /\ exit_code = "1"
        /\ CreatedDirs \subseteq Prefixes(output_root)
        /\ \A p \in CreatedDirs \cup CreatedFiles : ~Under(p, output_root)
        /\ args.log_root # None => args.log_root \notin dirs
        /\ CreatedFiles = {}
        /\ jobs = <<>>

\* C6 witness: an empty scan with -o out/deep and --log-root has ended, and both out and
\* out/deep were made
C6_Witness ==
    /\ EndedEmptyScan
    /\ exit_code = "1"
    /\ args.log_root = Logs
    /\ output_root = OutDeep
    /\ CreatedDirs = {Out, OutDeep}
    /\ FileLock \in files
    /\ FileCsv \in files

\* the name ends with .xlsx, compared case-insensitively, and does not start with ~$
NamedLikeWorkbook(name) ==
    /\ Len(name) >= Len(Xlsx)
    /\ \A i \in 1..Len(Xlsx) : LowerChar(name[Len(name) - Len(Xlsx) + i]) = Xlsx[i]
    /\ ~(Len(name) >= 2 /\ name[1] = "~" /\ name[2] = "$")

\* the files the specification's discovery selects in the source directory
SelectedFiles ==
    {f \in fs0.files :
        /\ NamedLikeWorkbook(BaseName(f))
        /\ IF args.recurse THEN Under(f, args.source_path)
           ELSE DirName(f) = args.source_path}

\* the sequence ascends strictly by the path's str
Ascending(seq) ==
    \A i \in 1..(Len(seq) - 1) : StrLess(PathStr(seq[i]), PathStr(seq[i + 1]))

\* C7: for a directory source the workbooks main processes are exactly the selected files,
\* in ascending order of full path, and nothing else is passed to the exporter
C7_ProcessesExactlySelectedFiles ==
    (SourceWasDir /\ pc \notin {"main", "root", "discover"}) =>
        /\ Range(xlsx_files) = SelectedFiles
        /\ Ascending(xlsx_files)
        /\ \A k \in DOMAIN jobs : jobs[k].workbook_path \in SelectedFiles

\* one string is the sanitized base name (file name without extension) of both workbooks
HasSameSafeBase(p, q) ==
    \E safe \in {SafeBase(SplitExtRoot(BaseName(p)))} :
        /\ IsSanitized(SplitExtRoot(BaseName(p)), safe)
        /\ IsSanitized(SplitExtRoot(BaseName(q)), safe)

\* C8 as stated: no two workbooks of a run are given the same output folder
C8_FoldersUnique ==
    \A i, j \in DOMAIN jobs :
        i # j => jobs[i].output_folder # jobs[j].output_folder

\* C8 as amended: two workbooks of a run are given the same output folder exactly when
\* their sanitized base names are equal and the formatted time of their
\* _create_output_folder calls is equal
C8_FoldersUniqueUpToBaseAndStamp ==
    \A i, j \in DOMAIN jobs :
        i # j =>
            /\ jobs[i].workbook_path # jobs[j].workbook_path
            /\ jobs[i].output_folder = jobs[j].output_folder
                  <=> /\ HasSameSafeBase(jobs[i].workbook_path, jobs[j].workbook_path)
                      /\ jobs[i].stamp = jobs[j].stamp

\* C8 witness: two workbooks of one base name got different folders at different times
C8_Witness ==
    /\ Len(jobs) >= 2
    /\ jobs[1].workbook_path = FileA
    /\ jobs[2].workbook_path = FileSubA
    /\ jobs[1].stamp # jobs[2].stamp
    /\ jobs[1].output_folder # jobs[2].output_folder
    /\ jobs[2].output_folder \in dirs

\* the paths main made for the k-th workbook it started
ArtifactsOf(k) ==
    {jobs[k].output_folder} \cup {jobs[k].log_file}
        \cup {p \in dirs \cup files : Under(p, jobs[k].output_folder)}

\* the state part of C9
C9_State ==
    \* progress index 1..total, in ascending path order
    /\ idx = Len(jobs)
    /\ idx <= Len(xlsx_files)
    /\ Ascending(xlsx_files)
    /\ \A k \in DOMAIN jobs : jobs[k].workbook_path = xlsx_files[k]
    \* workbook k+1 is not started before the export of workbook k has returned
    /\ \A k \in DOMAIN jobs : k < Len(jobs) => jobs[k].status = "returned"
    /\ \A k \in DOMAIN jobs : jobs[k].status = "returned" => (k < Len(jobs) \/ pc \in {"loop", "done"})
    \* a failed read or write ends the run at once, not with exit code 0
    /\ \A k \in DOMAIN jobs :
          jobs[k].status = "failed" => pc = "crashed" /\ exit_code = "uncaught" /\ k = Len(jobs)
    /\ pc = "crashed" => jobs[Len(jobs)].status = "failed"
    /\ exit_code = "0" => \A k \in 1..Len(xlsx_files) : k \in DOMAIN jobs /\ jobs[k].status = "returned"
    \* everything created belongs to the output root, the log root or a started workbook
    /\ \A p \in CreatedDirs \cup CreatedFiles :
          \/ p \in Prefixes(output_root)
          \/ args.log_root # None /\ p \in Prefixes(args.log_root)
          \/ \E k \in DOMAIN jobs : p \in ArtifactsOf(k)
    \* the artifacts of the workbooks that returned remain
    /\ \A k \in DOMAIN jobs :
          jobs[k].status \in {"returned", "failed"} =>
              /\ jobs[k].output_folder \in dirs
              /\ jobs[k].log_file \in files
              /\ \A i \in DOMAIN jobs[k].csv_files : jobs[k].csv_files[i] \in files

\* the step part of C9: after the failure nothing changes any more
C9_Step == pc = "crashed" => UNCHANGED vars

\* C9: the workbooks are processed one at a time in ascending path order; when the read or
\* a sheet write of workbook N fails, the run ends at once and not with exit code 0, nothing
\* is ever created for a later workbook, and the artifacts of the earlier workbooks remain
C9_SequentialAndAbortsOnFailure == []C9_State /\ [][C9_Step]_vars

\* C9 witness: the second of three workbooks failed after the first was exported
C9_Witness ==
    /\ pc = "crashed"
    /\ Len(xlsx_files) = 3
    /\ Len(jobs) = 2
    /\ jobs[1].status = "returned"
    /\ jobs[1].csv_files # <<>>
    /\ jobs[2].status = "failed"
    /\ ex.sheet_names # <<>>

====
